---- MODULE Spec2Model ----
(***************************************************************************)
(* Model of abaverify/processresults.py: the script that opens the output  *)
(* database of a finished job, gates on the run's diagnostics, evaluates   *)
(* the job's test specifications in input order and writes the result     *)
(* collection to <jobName>_results.py.                                     *)
(*                                                                         *)
(* Conventions                                                             *)
(*  - a python dict is a function from key strings to values;              *)
(*  - a python str that the code takes apart (symbols, region labels,     *)
(*    the text written by write_results) is a sequence of characters or    *)
(*    of words; a str the code only passes around is a TLA+ string;        *)
(*  - an xy data object is a sequence of <<x, y>> pairs, indexed from 1    *)
(*    (python index k is element k + 1);                                   *)
(*  - y values are integers in units of 1e-6, x values are integers;       *)
(*  - the outcome of an operation that can raise is a record               *)
(*    [ok, val, err].                                                      *)
(***************************************************************************)
EXTENDS Integers, Sequences, FiniteSets, TLC

VARIABLES
    odb,                      \* the output database: history outputs and history regions of Step-1
    para,                     \* the job input (parameters of <jobName>_expected), results mutated in place
    analysisErrors,           \* odb.diagnosticData.analysisErrors (descriptions)
    numberOfAnalysisWarnings, \* odb.diagnosticData.numberOfAnalysisWarnings
    pc,                       \* position of the script
    iii,                      \* index (1-based) of the test spec the loop is at
    testResults,              \* list of references (indices into para.results)
    identifier_list,          \* module-level name, bound only by the max/min branch
    varName,                  \* module-level name, bound by max/min, continuous, finalValue
    xyDataObj,                \* module-level name, bound only by max/min and finalValue without evalStatement
    resultFile,               \* <jobName>_results.py on disk
    logFile,                  \* <baseName>_failure_envelope.txt on disk
    err,                      \* the exception that ended the run ("" when none)
    xy,                       \* module-level name: the series the current branch obtained
    fnIn,                     \* input of the function under study (function-level specifications)
    fnOut                     \* its outcome

vars == <<odb, para, analysisErrors, numberOfAnalysisWarnings, pc, iii, testResults,
          identifier_list, varName, xyDataObj, resultFile, logFile, err, xy,
          fnIn, fnOut>>

jobVars == <<odb, para, analysisErrors, numberOfAnalysisWarnings, pc, iii, testResults,
             identifier_list, varName, xyDataObj, resultFile, logFile, err, xy>>

-----------------------------------------------------------------------------
(* Bounds of the model *)

MaxSpecs == 2      \* longest job (number of test specs)
MaxLen == 3        \* longest series of the function-level specifications
MaxVal == 2        \* largest |value| of a sample of the function-level specifications
MaxRegions == 3    \* most history regions of a step
MaxRefs == 2       \* most reference points of a tabular spec

-----------------------------------------------------------------------------
(* Generic helpers *)

Ok(v) == [ok |-> TRUE, val |-> v, err |-> ""]

Raise(e) == [ok |-> FALSE, val |-> <<>>, err |-> e]

Abs(n) == IF n < 0 THEN -n ELSE n

Max2(a, b) == IF a >= b THEN a ELSE b

RECURSIVE MaxOf(_)
MaxOf(s) == IF Len(s) = 1 THEN s[1] ELSE Max2(s[1], MaxOf(Tail(s)))

RECURSIVE MinOf(_)
MinOf(s) == IF Len(s) = 1 THEN s[1]
            ELSE LET m == MinOf(Tail(s)) IN IF s[1] <= m THEN s[1] ELSE m

Ys(data) == [k \in 1..Len(data) |-> data[k][2]]

Xs(data) == [k \in 1..Len(data) |-> data[k][1]]

SeqsUpTo(S, n) == UNION {[1..k -> S] : k \in 0..n}

-----------------------------------------------------------------------------
(* Identifier resolver.  A symbol is a sequence of characters; a channel   *)
(* name is the tuple of the pieces the code concatenates, a position the   *)
(* sequence of its words ("Node 9" is <<"Node", "9">>).  An identifier     *)
(* is tagged with its python type: [kind |-> "str" | "dict" | "list" |     *)
(* "other", v |-> value].  historyRegions of a step is a sequence (the     *)
(* repository's key order) of [label, outputs]; a label is the sequence of *)
(* its space-separated words and a word the sequence of its dot-separated  *)
(* parts.                                                                  *)

Digits == {"0", "1", "2", "3", "4", "5", "6", "7", "8", "9"}

WordChars == Digits \cup {"R", "F", "U", "S", "L", "E", "D", "V", "_"}

RECURSIVE DigitRun(_, _)
\* length of the run of digits of sym that starts at position k
DigitRun(sym, k) ==
    IF k <= Len(sym) /\ sym[k] \in Digits THEN 1 + DigitRun(sym, k + 1) ELSE 0

StartsWith(sym, pre) ==
    Len(sym) >= Len(pre) /\ \A k \in 1..Len(pre) : sym[k] = pre[k]

MatchRF(sym) == StartsWith(sym, <<"R", "F">>) /\ DigitRun(sym, 3) >= 1

MatchU(sym) == StartsWith(sym, <<"U">>) /\ DigitRun(sym, 2) >= 1

MatchS(sym) == StartsWith(sym, <<"S">>) /\ DigitRun(sym, 2) >= 1

MatchLE(sym) == StartsWith(sym, <<"L", "E">>) /\ DigitRun(sym, 3) >= 1

MatchE(sym) == StartsWith(sym, <<"E">>) /\ DigitRun(sym, 2) >= 1

MatchSDV(sym) ==
    StartsWith(sym, <<"S", "D", "V">>) /\ Len(sym) >= 4 /\ sym[4] \in WordChars

HistoryOutputNameHelperNode(prefixString, identifier, steps, regions) ==
    LET i == identifier["symbol"]
        \* the regions of steps[0] whose historyOutputs hold the symbol, in key order
        hits == SelectSeq(regions, LAMBDA hr : i \in hr.outputs)
    IN  IF "position" \in DOMAIN identifier /\ "nset" \in DOMAIN identifier
        THEN Ok(<<prefixString, i, " at ">> \o identifier["position"] \o <<" in NSET ", identifier["nset"]>>)
        ELSE IF "nset" \in DOMAIN identifier
        THEN IF Len(steps) > 1
             THEN Raise("Must specify position if analysis has multiple steps")
             ELSE IF Len(hits) = 0
             THEN Raise("Error getting history Output name")
             ELSE LET labelSplit == hits[1].label
                  IN  IF labelSplit[1] = <<"Node">> /\ Len(labelSplit) = 2
                      THEN IF Len(labelSplit[2]) >= 2
                           THEN Ok(<<prefixString, i, " at ", "Node", labelSplit[2][2],
                                     " in NSET ", identifier["nset"]>>)
                           ELSE Raise("IndexError")
                      ELSE Raise("Must specify a position")
        ELSE Raise("Missing nset definition in RF identifier")

HistoryOutputNameHelperElement(prefixString, identifier, steps) ==
    \* the case-insensitive fallback changes nothing for the upper-case symbols of the model
    IF "position" \in DOMAIN identifier /\ "elset" \in DOMAIN identifier
    THEN Ok(<<prefixString, identifier["symbol"], " at ">> \o identifier["position"]
              \o <<" in ELSET ", identifier["elset"]>>)
    ELSE Raise("Must define position in element identifier")

HistoryOutputNameFromDict(identifier, steps, regions) ==
    IF "symbol" \in DOMAIN identifier
    THEN LET i == identifier["symbol"]
         IN  IF MatchRF(i)
             THEN HistoryOutputNameHelperNode("Reaction force: ", identifier, steps, regions)
             ELSE IF MatchU(i)
             THEN HistoryOutputNameHelperNode("Spatial displacement: ", identifier, steps, regions)
             ELSE IF MatchS(i)
             THEN HistoryOutputNameHelperElement("Stress components: ", identifier, steps)
             ELSE IF MatchLE(i)
             THEN HistoryOutputNameHelperElement("Logarithmic strain components: ", identifier, steps)
             ELSE IF MatchE(i)
             THEN Raise("NotImplementedError")
             ELSE IF MatchSDV(i)
             THEN HistoryOutputNameHelperElement("Solution dependent state variables: ", identifier, steps)
             ELSE Raise("Unrecognized symbol")
    ELSE Raise("Identifier missing symbol definition")

HistoryOutputNameFromScalar(identifier, steps, regions) ==
    IF identifier.kind = "dict"
    THEN HistoryOutputNameFromDict(identifier.v, steps, regions)
    ELSE IF identifier.kind = "str"
    THEN Ok(<<identifier.v>>)
    ELSE Raise("Expecting that the argument is a list, dict, or str")

\* the identifiers of the model nest lists one level deep
HistoryOutputNameFromIdentifier(identifier, steps, regions) ==
    IF identifier.kind = "list"
    THEN LET outs == [k \in 1..Len(identifier.v) |->
                        HistoryOutputNameFromScalar(identifier.v[k], steps, regions)]
             bad == {k \in 1..Len(outs) : ~outs[k].ok}
         IN  IF bad = {}
             THEN Ok([k \in 1..Len(outs) |-> outs[k].val])
             ELSE Raise(outs[CHOOSE k \in bad : \A j \in bad : k <= j].err)
    ELSE HistoryOutputNameFromScalar(identifier, steps, regions)

-----------------------------------------------------------------------------
(* The history store and the evaluation expressions.  A store is a         *)
(* function from channel names to series of <<time, value>>.  An           *)
(* evaluation expression is [op, key]: "get" is the text d[key], "neg" the *)
(* text -d[key].                                                           *)

XYDataFromHistory(store, outputVariableName) ==
    IF outputVariableName \in DOMAIN store
    THEN Ok(store[outputVariableName])
    ELSE Raise("OdbError: history output not found")

Negate(data) == [k \in 1..Len(data) |-> <<data[k][1], -data[k][2]>>]

\* identifier_list and var_names are python lists of the same length here
evaluate_statement(store, idents, var_names, eval_statement) ==
    LET n == IF Len(idents) <= Len(var_names) THEN Len(idents) ELSE Len(var_names)
        labelled == \A k \in 1..Len(idents) :
                        idents[k].kind = "dict" /\ "label" \in DOMAIN idents[k].v
        datas == [k \in 1..n |-> XYDataFromHistory(store, var_names[k])]
        bad == {k \in 1..n : ~datas[k].ok \/ "symbol" \notin DOMAIN idents[k].v}
        \* d[label]: the last pair of the zip with that label wins
        holders == {k \in 1..n : idents[k].v["label"] = eval_statement.key}
        last == CHOOSE k \in holders : \A j \in holders : j <= k
    IN  IF ~labelled THEN Raise("AssertionError")
        ELSE IF bad # {} THEN Raise("OdbError: history output not found")
        ELSE IF holders = {} THEN Raise("KeyError")
        ELSE IF eval_statement.op = "neg" THEN Ok(Negate(datas[last].val))
        ELSE Ok(datas[last].val)

\* abaqus combine(x, y): pairs the values of two series index-wise
combine(xdata, ydata) ==
    LET n == IF Len(xdata) <= Len(ydata) THEN Len(xdata) ELSE Len(ydata)
    IN  [k \in 1..n |-> <<xdata[k][2], ydata[k][2]>>]

getX(store, r, varNames) ==
    IF "xEvalStatement" \in DOMAIN r /\ "yEvalStatement" \in DOMAIN r
    THEN evaluate_statement(store, r["identifier"].v, varNames, r["xEvalStatement"])
    ELSE IF r["identifier"].v[1].kind = "dict" /\ "symbol" \in DOMAIN r["identifier"].v[1].v
    THEN XYDataFromHistory(store, varNames[1])
    ELSE Raise("TypeError")

getY(store, r, varNames) ==
    IF "xEvalStatement" \in DOMAIN r /\ "yEvalStatement" \in DOMAIN r
    THEN evaluate_statement(store, r["identifier"].v, varNames, r["yEvalStatement"])
    ELSE IF r["identifier"].v[2].kind = "dict" /\ "symbol" \in DOMAIN r["identifier"].v[2].v
    THEN XYDataFromHistory(store, varNames[2])
    ELSE Raise("TypeError")

getXY(store, r, varNames) ==
    LET x == getX(store, r, varNames)
        y == getY(store, r, varNames)
    IN  IF ~x.ok THEN x ELSE IF ~y.ok THEN y ELSE Ok(combine(x.val, y.val))

-----------------------------------------------------------------------------
(* The evaluators, as functions of the series the branch obtained *)

MaxValue(data) == IF Len(data) = 0 THEN Raise("ValueError") ELSE Ok(MaxOf(Ys(data)))

MinValue(data) == IF Len(data) = 0 THEN Raise("ValueError") ELSE Ok(MinOf(Ys(data)))

\* max([max(ref, abs(xy[x][1] - xy[x - 1][1])) for x in range(2, len(xy))])
ContinuousValue(data, referenceValue) ==
    IF Len(data) < 3
    THEN Raise("ValueError")
    ELSE Ok(MaxOf([k \in 1..(Len(data) - 2) |->
                     Max2(referenceValue, Abs(data[k + 2][2] - data[k + 1][2]))]))

\* xyDataObj[-1][1]
FinalValue(data) == IF Len(data) = 0 THEN Raise("IndexError") ELSE Ok(data[Len(data)][2])

ZeroTolDefault == 1

WindowOf(r) ==
    IF "window" \in DOMAIN r
    THEN r["window"]
    ELSE <<r["referenceValue"] - 2 * r["tolerance"], r["referenceValue"] + 2 * r["tolerance"]>>

Windowed(data, windowMin, windowMax) ==
    SelectSeq(data, LAMBDA xi : xi[1] > windowMin /\ xi[1] < windowMax)

ZeroTolOf(r) == IF "zeroTol" \in DOMAIN r THEN r["zeroTol"] ELSE ZeroTolDefault

DispAtZeroY(r, data) ==
    LET w == WindowOf(r)
        windowed == Windowed(data, w[1], w[2])
        near == SelectSeq(windowed, LAMBDA pt : Abs(pt[2]) <= ZeroTolOf(r))
        disp_crit == IF Len(near) = 0 THEN 0 ELSE near[1][1]
    IN  IF disp_crit = 0
        THEN Raise("disp_at_zero_y: Could not find a point where y data goes to zero")
        ELSE Ok(disp_crit)

XAtPeakInXY(data) ==
    IF Len(data) = 0
    THEN Raise("ValueError")
    ELSE LET y == [k \in 1..Len(data) |-> Abs(data[k][2])]
             y_max == MaxOf(y)
             first == CHOOSE k \in 1..Len(y) : y[k] = y_max /\ \A j \in 1..(k - 1) : y[j] # y_max
         IN  Ok(data[first][1])

-----------------------------------------------------------------------------
(* Rationals [n, d] with d > 0, in lowest terms: the values numpy computes  *)
(* from the integer samples of the model.                                  *)

RECURSIVE GCD(_, _)
GCD(a, b) == IF b = 0 THEN a ELSE GCD(b, a % b)

Rat(n, d) ==
    LET g == GCD(Abs(n), Abs(d))
        sgn == IF d < 0 THEN -1 ELSE 1
    IN  [n |-> (sgn * n) \div g, d |-> (sgn * d) \div g]

RatOfInt(k) == [n |-> k, d |-> 1]

NonDecreasing(x) == \A k \in 1..(Len(x) - 1) : x[k] <= x[k + 1]

\* np.all(np.diff(x) < 0): true of an array with fewer than two elements
AllDiffNegative(x) == \A k \in 1..(Len(x) - 1) : x[k + 1] - x[k] < 0

\* np.interp(x, xp, fp) for non-decreasing xp
NpInterp(x, xp, fp) ==
    LET n == Len(xp)
        j == CHOOSE k \in 1..n : xp[k] <= x /\ \A m \in (k + 1)..n : xp[m] > x
    IN  IF x > xp[n] THEN RatOfInt(fp[n])
        ELSE IF x < xp[1] THEN RatOfInt(fp[1])
        ELSE IF j = n \/ xp[j] = x THEN RatOfInt(fp[j])
        ELSE Rat((fp[j + 1] - fp[j]) * (x - xp[j]) + fp[j] * (xp[j + 1] - xp[j]),
                 xp[j + 1] - xp[j])

\* the tabular branch after combine; unsorted holds the values np.interp
\* yields when xp is not sorted, which numpy leaves unspecified
Tabular(r, data, unsorted) ==
    LET x == Xs(data)
        y == Ys(data)
        x_ref_values == [k \in 1..Len(r["referenceValue"]) |-> r["referenceValue"][k][1]]
    IN  IF Len(data) = 0 THEN Raise("IndexError")
        ELSE IF AllDiffNegative(x) THEN Raise("x values must be monotonically increasing")
        ELSE IF NonDecreasing(x)
        THEN Ok([k \in 1..Len(x_ref_values) |->
                    <<x_ref_values[k], NpInterp(x_ref_values[k], x, y)>>])
        ELSE Ok([k \in 1..Len(x_ref_values) |-> <<x_ref_values[k], unsorted[k]>>])

\* the values an np.interp over unsorted xp is taken to yield
UnsortedInterp(r, data) ==
    [1..Len(r["referenceValue"]) -> {RatOfInt(data[k][2]) : k \in 1..Len(data)}]

-----------------------------------------------------------------------------
(* log_stress_at_failure_init.  A python index i into a list of n items is *)
(* valid for -n <= i < n and a negative i counts from the end.             *)

FailureThreshold == 1000000

PyValid(data, i) == -Len(data) <= i /\ i < Len(data)

PyGet(data, i) == IF i >= 0 THEN data[i + 1] ELSE data[Len(data) + i + 1]

RemoveFirst(list, item) ==
    LET at == CHOOSE k \in 1..Len(list) : list[k] = item /\ \A j \in 1..(k - 1) : list[j] # item
    IN  [k \in 1..(Len(list) - 1) |-> IF k < at THEN list[k] ELSE list[k + 1]]

\* for y in reversed(xy): if y[1] >= 1.0: failed.append(xy)
HasFailed(data) == \E k \in 1..Len(data) : data[k][2] >= FailureThreshold

RECURSIVE FilterPass(_, _, _)
\* for fi in failed: if fi[i][1] < 1.0: failed.remove(fi)   (p is the iterator's position)
FilterPass(failed, p, i) ==
    IF p > Len(failed) THEN Ok(failed)
    ELSE IF ~PyValid(failed[p].data, i) THEN Raise("IndexError")
    ELSE IF PyGet(failed[p].data, i)[2] < FailureThreshold
    THEN FilterPass(RemoveFirst(failed, failed[p]), p + 1, i)
    ELSE FilterPass(failed, p + 1, i)

RECURSIVE FailureLoop(_, _)
\* one iteration of the while True loop, entered with the value i has before i -= 1
FailureLoop(failed, i0) ==
    LET i == i0 - 1
    IN  IF Len(failed) > 1
        THEN LET pass == FilterPass(failed, 1, i)
             IN  IF ~pass.ok THEN pass
                 ELSE IF Len(pass.val) < 1
                 THEN Raise("Multiple failure modes occurred at the same increment")
                 ELSE FailureLoop(pass.val, i)
        ELSE IF ~PyValid(failed[1].data, i) THEN Raise("IndexError")
        ELSE IF PyGet(failed[1].data, i)[2] >= FailureThreshold
                /\ PyValid(failed[1].data, i - 1)
                /\ PyGet(failed[1].data, i - 1)[2] < FailureThreshold
        THEN Ok(i)
        ELSE IF PyGet(failed[1].data, i)[2] >= FailureThreshold /\ ~PyValid(failed[1].data, i - 1)
        THEN Raise("IndexError")
        ELSE FailureLoop(failed, i)

\* failed: the failing series, each [name, data]
FailureIncrement(failed) ==
    IF Len(failed) <= 0
    THEN Raise("No failure occurred in the model")
    ELSE FailureLoop(failed, Len(failed[1].data))

\* parseJobName: name is the sequence of the "_"-separated tokens, isInt tells
\* which tokens int() accepts; n ranges over range(idxFirstInt - 1, len(s), 2)
parseJobName(name, isInt) ==
    LET ints == {k \in 1..Len(name) : isInt[k]}
        idxFirstInt == (CHOOSE k \in ints : \A j \in ints : k <= j) - 1
        keysAt == {n \in (idxFirstInt - 1)..(Len(name) - 1) : (n - (idxFirstInt - 1)) % 2 = 0}
        keys == {PyGet(name, n) : n \in keysAt}
        lastAt(key) == CHOOSE n \in keysAt :
                          PyGet(name, n) = key /\ \A m \in keysAt : PyGet(name, m) = key => m <= n
    IN  IF ints = {} THEN Raise("IndexError")
        ELSE IF \E n \in keysAt : ~PyValid(name, n + 1) THEN Raise("IndexError")
        ELSE Ok([baseName |-> IF idxFirstInt = 0 THEN SubSeq(name, 1, Len(name) - 1)
                              ELSE SubSeq(name, 1, idxFirstInt - 1),
                 params |-> [key \in keys |-> PyGet(name, lastAt(key) + 1)]])

-----------------------------------------------------------------------------
(* The job-level inputs: the output database and the test specs a job is   *)
(* made of.                                                                *)

SymRF1 == <<"R", "F", "1">>
SymU1 == <<"U", "1">>
SymU2 == <<"U", "2">>
SymS11 == <<"S", "1", "1">>
SymFI == <<"S", "D", "V", "_", "F">>
SymFG == <<"S", "D", "V", "_", "G">>

NodeIdent(sym, label) ==
    [kind |-> "dict",
     v |-> [symbol |-> sym, position |-> <<"Node", "9">>, nset |-> "LOADAPP", label |-> label]]

ElemIdent(sym, label) ==
    [kind |-> "dict",
     v |-> [symbol |-> sym, position |-> <<"Element", "1", "Int", "Point", "1">>,
            elset |-> "ROW", label |-> label]]

IdRF1 == NodeIdent(SymRF1, "a")
IdU1 == NodeIdent(SymU1, "b")
IdU2 == NodeIdent(SymU2, "c")
IdS11 == ElemIdent(SymS11, "s")
IdFI == ElemIdent(SymFI, "f")
IdFG == ElemIdent(SymFG, "g")

ListIdent(ids) == [kind |-> "list", v |-> ids]

steps == <<"Step-1">>

\* odb.steps["Step-1"].historyRegions
OdbHistoryRegions ==
    << [label |-> <<<<"Node">>, <<"PART-1-1", "9">>>>, outputs |-> {SymRF1, SymU1, SymU2}],
       [label |-> <<<<"Element">>, <<"PART-1-1", "1">>, <<"Int">>, <<"Point">>, <<"1">>>>,
        outputs |-> {SymS11, SymFI, SymFG}] >>

\* the channels of the job's odb and their <<time, value>> per increment
OdbChannels ==
    << [id |-> IdRF1, data |-> << <<0, 0>>, <<1, 4>>, <<2, 1>> >>],
       [id |-> IdU1, data |-> << <<0, 0>>, <<1, 2>>, <<2, 3>> >>],
       [id |-> IdU2, data |-> << <<0, 0>>, <<1, 2>>, <<2, 1>> >>],
       [id |-> IdS11, data |-> << <<0, 0>>, <<1, 5>>, <<2, 9>> >>],
       [id |-> IdFI, data |-> << <<0, 0>>, <<1, 500000>>, <<2, 1200000>> >>],
       [id |-> IdFG, data |-> << <<0, 0>>, <<1, 700000>>, <<2, 1000000>> >>] >>

\* the history outputs, keyed by the name the resolver gives each channel
OdbHistoryOutputs ==
    LET names == [k \in 1..Len(OdbChannels) |->
                    HistoryOutputNameFromIdentifier(OdbChannels[k].id, steps, OdbHistoryRegions).val]
    IN  [n \in {names[k] : k \in 1..Len(names)} |->
           OdbChannels[CHOOSE k \in 1..Len(names) : names[k] = n].data]

jobName == <<"env", "loadRatio", "1">>

jobNameIsInt == <<FALSE, FALSE, TRUE>>

GetA == [op |-> "get", key |-> "a"]
NegA == [op |-> "neg", key |-> "a"]
GetB == [op |-> "get", key |-> "b"]

\* the test specs a job of the model is drawn from
Templates ==
    << [type |-> "max", identifier |-> IdRF1, referenceValue |-> 4, tolerance |-> 0],
       [type |-> "min", identifier |-> IdRF1, referenceValue |-> 0, tolerance |-> 0,
        evalStatement |-> NegA],
       [type |-> "continuous", identifier |-> IdU1, referenceValue |-> 1, tolerance |-> 0],
       [type |-> "continuous", identifier |-> IdU1, referenceValue |-> 1, tolerance |-> 0,
        evalStatement |-> GetA],
       [type |-> "finalValue", identifier |-> IdU1, referenceValue |-> 3, tolerance |-> 0],
       [type |-> "finalValue", identifier |-> IdU1, referenceValue |-> 3, tolerance |-> 0,
        evalStatement |-> GetA],
       [type |-> "disp_at_zero_y", identifier |-> ListIdent(<<IdU1, IdRF1>>),
        referenceValue |-> 3, tolerance |-> 1, window |-> <<1, 4>>],
       [type |-> "disp_at_zero_y", identifier |-> ListIdent(<<IdU1, IdRF1>>),
        referenceValue |-> 0, tolerance |-> 1, zeroTol |-> 0],
       [type |-> "log_stress_at_failure_init", failureIndices |-> ListIdent(<<IdFI>>),
        stressComponents |-> ListIdent(<<IdS11>>),
        additionalIdentifiersToStore |-> ListIdent(<<IdU1>>)],
       [type |-> "x_at_peak_in_xy", identifier |-> ListIdent(<<IdU1, IdRF1>>),
        referenceValue |-> 2, tolerance |-> 0],
       [type |-> "tabular", identifier |-> ListIdent(<<IdU1, IdRF1>>),
        referenceValue |-> << <<1, 2>>, <<2, 4>> >>, tolerance |-> <<0, 0>>],
       [type |-> "tabular", identifier |-> ListIdent(<<IdU2, IdRF1>>),
        referenceValue |-> << <<1, 2>> >>, tolerance |-> <<0, 0>>,
        xEvalStatement |-> [op |-> "get", key |-> "c"], yEvalStatement |-> GetA],
       [type |-> "plateau", identifier |-> IdRF1, referenceValue |-> 0, tolerance |-> 0],
       [type |-> "log_stress_at_failure_init", failureIndices |-> ListIdent(<<IdFI, IdFG>>),
        stressComponents |-> ListIdent(<<IdS11>>),
        additionalIdentifiersToStore |-> ListIdent(<<IdU2>>)],
       [type |-> "log_stress_at_failure_init", failureIndices |-> ListIdent(<<IdS11>>),
        stressComponents |-> ListIdent(<<IdS11>>),
        additionalIdentifiersToStore |-> ListIdent(<<IdU1>>)] >>

Flags == {"absent", "true", "false"}

Tolerated == "Excessively distorted elements"

ErrorLists == {<<>>, <<Tolerated>>, <<"Too many attempts">>, <<Tolerated, "Too many attempts">>}

Undefined == [def |-> FALSE, val |-> <<>>]

Bound(v) == [def |-> TRUE, val |-> v]

NoFile == [exists |-> FALSE, run |-> "none", body |-> <<>>]

PriorFile == [exists |-> TRUE, run |-> "prior", body |-> <<>>]

-----------------------------------------------------------------------------
(* The script: gating, the evaluation loop, the result file *)

Jobs == SeqsUpTo(1..Len(Templates), MaxSpecs) \ {<<>>}

NoCall == [fn |-> "none"]

Init ==
    /\ odb = [historyOutputs |-> OdbHistoryOutputs, historyRegions |-> OdbHistoryRegions]
    /\ \E job \in Jobs, e \in Flags, w \in Flags :
          para = [results |-> [k \in 1..Len(job) |-> Templates[job[k]]],
                  ignoreAnalysisErrors |-> e, ignoreWarnings |-> w]
    /\ analysisErrors \in ErrorLists
    /\ numberOfAnalysisWarnings \in 0..1
    /\ pc = "errors"
    /\ iii = 1
    /\ testResults = <<>>
    /\ identifier_list = Undefined
    /\ varName = Undefined
    /\ xyDataObj = Undefined
    /\ resultFile \in {NoFile, PriorFile}
    /\ logFile = [exists |-> FALSE, lines |-> <<>>]
    /\ err = ""
    /\ xy = <<>>
    /\ fnIn = NoCall
    /\ fnOut = NoCall

Abort(e) ==
    /\ pc' = "aborted"
    /\ err' = e
    /\ UNCHANGED <<odb, para, analysisErrors, numberOfAnalysisWarnings, iii, testResults,
                   identifier_list, varName, xyDataObj, resultFile, logFile, xy, fnIn, fnOut>>

resultTypes == [k \in 1..Len(para.results) |-> para.results[k]["type"]]

ErrorsAbort ==
    /\ Len(analysisErrors) > 0
    /\ \/ /\ \E k \in 1..Len(resultTypes) : resultTypes[k] = "log_stress_at_failure_init"
          /\ \E k \in 1..Len(analysisErrors) : analysisErrors[k] # Tolerated
       \/ para.ignoreAnalysisErrors # "true"

GateErrors ==
    /\ pc = "errors"
    /\ IF ErrorsAbort
       THEN Abort("ERROR: Errors occurred during analysis")
       ELSE /\ pc' = "warnings"
            /\ UNCHANGED <<odb, para, analysisErrors, numberOfAnalysisWarnings, iii, testResults,
                           identifier_list, varName, xyDataObj, resultFile, logFile, err, xy,
                           fnIn, fnOut>>

\* a gate on warnings that mirrors the gate on errors: abort unless opted in
WarningsAbort_Mirrored ==
    /\ para.ignoreWarnings # "true"
    /\ numberOfAnalysisWarnings > 0

WarningsAbort ==
    /\ para.ignoreWarnings # "absent" /\ para.ignoreWarnings # "true"
    /\ numberOfAnalysisWarnings > 0

GateWarnings ==
    /\ pc = "warnings"
    /\ IF WarningsAbort
       THEN Abort("ERROR: Warnings occurred during analysis")
       ELSE /\ pc' = "collect"
            /\ UNCHANGED <<odb, para, analysisErrors, numberOfAnalysisWarnings, iii, testResults,
                           identifier_list, varName, xyDataObj, resultFile, logFile, err, xy,
                           fnIn, fnOut>>

\* the spec the loop is at
r == para.results[iii]

AtSpec(types) == pc = "collect" /\ iii <= Len(para.results) /\ r["type"] \in types

WithKey(d, key, value) == [k \in DOMAIN d \cup {key} |-> IF k = key THEN value ELSE d[k]]

\* a loop that puts each evaluated spec at the head of the list
Collect_Prepend(rNow, value) ==
    /\ para' = [para EXCEPT !.results[iii] = WithKey(rNow, "computedValue", value)]
    /\ testResults' = <<iii>> \o testResults
    /\ iii' = iii + 1
    /\ UNCHANGED <<odb, analysisErrors, numberOfAnalysisWarnings, pc, resultFile, logFile, err,
                   fnIn, fnOut>>

\* r[compute_value_name] = value; testResults.append(r); on to the next spec
Collect(rNow, value) ==
    /\ para' = [para EXCEPT !.results[iii] = WithKey(rNow, "computedValue", value)]
    /\ testResults' = Append(testResults, iii)
    /\ iii' = iii + 1
    /\ UNCHANGED <<odb, analysisErrors, numberOfAnalysisWarnings, pc, resultFile, logFile, err,
                   fnIn, fnOut>>

HasSymbol(ident) == ident.kind = "dict" /\ "symbol" \in DOMAIN ident.v

Resolve(ident) == HistoryOutputNameFromIdentifier(ident, steps, odb.historyRegions)

\* evaluate_statement(identifier_list=identifier_list, var_names=[varName], ...) with the
\* module-level identifier_list
EvalWithGlobalList(name, eval_statement) ==
    IF ~identifier_list.def
    THEN Raise("NameError: identifier_list")
    ELSE evaluate_statement(odb.historyOutputs, identifier_list.val, <<name>>, eval_statement)

EvalMaxMin ==
    /\ AtSpec({"max", "min"})
    /\ LET name == Resolve(r["identifier"])
           viaEval == "evalStatement" \in DOMAIN r
           got == IF viaEval
                  THEN evaluate_statement(odb.historyOutputs, <<r["identifier"]>>, <<name.val>>,
                                          r["evalStatement"])
                  ELSE IF HasSymbol(r["identifier"])
                  THEN XYDataFromHistory(odb.historyOutputs, name.val)
                  ELSE Raise("TypeError")
           value == IF r["type"] = "max" THEN MaxValue(got.val) ELSE MinValue(got.val)
       IN  IF ~name.ok THEN Abort(name.err)
           ELSE IF ~got.ok THEN Abort(got.err)
           ELSE IF ~value.ok THEN Abort(value.err)
           ELSE /\ Collect(r, value.val)
                /\ varName' = Bound(name.val)
                /\ identifier_list' = Bound(<<r["identifier"]>>)
                /\ xyDataObj' = IF viaEval THEN xyDataObj ELSE Bound(got.val)
                /\ xy' = got.val

EvalContinuous ==
    /\ AtSpec({"continuous"})
    /\ LET name == Resolve(r["identifier"])
           got == IF "evalStatement" \in DOMAIN r
                  THEN EvalWithGlobalList(name.val, r["evalStatement"])
                  ELSE XYDataFromHistory(odb.historyOutputs, name.val)
           value == ContinuousValue(got.val, r["referenceValue"])
       IN  IF ~name.ok THEN Abort(name.err)
           ELSE IF ~got.ok THEN Abort(got.err)
           ELSE IF ~value.ok THEN Abort(value.err)
           ELSE /\ Collect(r, value.val)
                /\ varName' = Bound(name.val)
                /\ xy' = got.val
                /\ UNCHANGED <<identifier_list, xyDataObj>>

EvalFinalValue ==
    /\ AtSpec({"finalValue"})
    /\ LET name == Resolve(r["identifier"])
           viaEval == "evalStatement" \in DOMAIN r
           got == IF viaEval
                  THEN EvalWithGlobalList(name.val, r["evalStatement"])
                  ELSE IF HasSymbol(r["identifier"])
                  THEN XYDataFromHistory(odb.historyOutputs, name.val)
                  ELSE Raise("TypeError")
           obj == IF viaEval THEN xyDataObj ELSE Bound(got.val)
           value == IF ~obj.def THEN Raise("NameError: xyDataObj") ELSE FinalValue(obj.val)
       IN  IF ~name.ok THEN Abort(name.err)
           ELSE IF ~got.ok THEN Abort(got.err)
           ELSE IF ~value.ok THEN Abort(value.err)
           ELSE /\ Collect(r, value.val)
                /\ varName' = Bound(name.val)
                /\ xyDataObj' = obj
                /\ xy' = got.val
                /\ UNCHANGED identifier_list

\* varNames and the combined x-y series of a two-identifier spec
ResolveXY(rNow) ==
    LET varNames == Resolve(rNow["identifier"])
    IN  IF ~varNames.ok THEN varNames
        ELSE IF rNow["identifier"].kind # "list" \/ Len(rNow["identifier"].v) < 2
        THEN Raise("TypeError")
        ELSE getXY(odb.historyOutputs, rNow, varNames.val)

\* a branch that also records in the spec the displacement under its local name
EvalDispAtZeroY_StoresDispCrit ==
    /\ AtSpec({"disp_at_zero_y"})
    /\ LET data == ResolveXY(r)
           value == DispAtZeroY(r, data.val)
       IN  IF ~data.ok THEN Abort(data.err)
           ELSE IF ~value.ok THEN Abort(value.err)
           ELSE /\ Collect(WithKey(WithKey(r, "zeroTol", ZeroTolOf(r)), "disp_crit", value.val),
                           value.val)
                /\ xy' = data.val
                /\ UNCHANGED <<identifier_list, varName, xyDataObj>>

EvalDispAtZeroY ==
    /\ AtSpec({"disp_at_zero_y"})
    /\ LET data == ResolveXY(r)
           value == DispAtZeroY(r, data.val)
       IN  IF ~data.ok THEN Abort(data.err)
           ELSE IF ~value.ok THEN Abort(value.err)
           ELSE /\ Collect(WithKey(r, "zeroTol", ZeroTolOf(r)), value.val)
                /\ xy' = data.val
                /\ UNCHANGED <<identifier_list, varName, xyDataObj>>

EvalXAtPeakInXY ==
    /\ AtSpec({"x_at_peak_in_xy"})
    /\ LET data == ResolveXY(r)
           value == XAtPeakInXY(data.val)
       IN  IF ~data.ok THEN Abort(data.err)
           ELSE IF ~value.ok THEN Abort(value.err)
           ELSE /\ Collect(r, value.val)
                /\ xy' = data.val
                /\ UNCHANGED <<identifier_list, varName, xyDataObj>>

EvalTabular ==
    /\ AtSpec({"tabular"})
    /\ LET data == ResolveXY(r)
       IN  IF ~data.ok THEN Abort(data.err)
           ELSE \E unsorted \in UnsortedInterp(r, data.val) :
                  LET value == Tabular(r, data.val, unsorted)
                  IN  IF ~value.ok THEN Abort(value.err)
                      ELSE /\ Collect(r, value.val)
                           /\ xy' = data.val
                           /\ UNCHANGED <<identifier_list, varName, xyDataObj>>

\* the series of every name of a tuple of names, or the first error
FetchAll(names) ==
    LET outs == [k \in 1..Len(names) |-> XYDataFromHistory(odb.historyOutputs, names[k])]
        bad == {k \in 1..Len(outs) : ~outs[k].ok}
    IN  IF bad = {} THEN Ok([k \in 1..Len(outs) |-> outs[k].val])
        ELSE Raise(outs[CHOOSE k \in bad : \A j \in bad : k <= j].err)

\* the series loaded for the failure indices of rNow
FailureSeries(rNow) ==
    LET varNames == Resolve(rNow["failureIndices"])
    IN  IF ~varNames.ok THEN varNames
        ELSE IF "evalStatement" \in DOMAIN rNow
        THEN IF Len(varNames.val) = 0 THEN Ok(<<>>)
             ELSE IF ~varName.def THEN Raise("NameError: varName")
             ELSE LET one == EvalWithGlobalList(varName.val, rNow["evalStatement"])
                  IN  IF ~one.ok THEN one
                      ELSE Ok([k \in 1..Len(varNames.val) |-> one.val])
        ELSE FetchAll(varNames.val)

\* name -> value at increment inc, for the series datas of the identifiers idents
\* (a later identifier with the same symbol overwrites an earlier one)
ValuesAtIncrement(idents, datas, inc) ==
    LET symOf(k) == idents[k].v["symbol"]
        lastOf(sym) == CHOOSE k \in 1..Len(datas) :
                          symOf(k) = sym /\ \A j \in (k + 1)..Len(datas) : symOf(j) # sym
    IN  IF \E k \in 1..Len(datas) : ~PyValid(datas[k], inc)
        THEN Raise("IndexError")
        ELSE Ok([dict |-> [sym \in {symOf(k) : k \in 1..Len(datas)} |->
                             PyGet(datas[lastOf(sym)], inc)[2]],
                 last |-> IF Len(datas) = 0 THEN <<>> ELSE datas[Len(datas)]])

FetchValuesAt(idents, varNames, inc) ==
    LET datas == FetchAll(varNames)
    IN  IF ~datas.ok THEN datas ELSE ValuesAtIncrement(idents, datas.val, inc)

\* the values at increment inc of the series named by the identifiers under key
ValuesAt(rNow, key, inc) ==
    IF key \notin DOMAIN rNow THEN Raise("KeyError")
    ELSE LET varNames == Resolve(rNow[key])
         IN  IF ~varNames.ok THEN varNames
             ELSE FetchValuesAt(rNow[key].v, varNames.val, inc)

\* the heading and the record of the envelope log, from the values read at the increment
EnvelopeLines(stressAtFailure, additionalData, jnparsed) ==
    IF ~stressAtFailure.ok THEN stressAtFailure
    ELSE IF ~additionalData.ok THEN additionalData
    ELSE IF ~jnparsed.ok THEN jnparsed
    ELSE IF "loadRatio" \notin DOMAIN jnparsed.val.params THEN Raise("KeyError")
    ELSE Ok([dataToWrite |-> [kind |-> "data", loadRatio |-> jnparsed.val.params["loadRatio"],
                              stress |-> stressAtFailure.val.dict,
                              additional |-> additionalData.val.dict],
             heading |-> [kind |-> "heading", loadRatio |-> "Load Ratio",
                          stress |-> DOMAIN stressAtFailure.val.dict,
                          additional |-> DOMAIN additionalData.val.dict],
             logFileName |-> jnparsed.val.baseName,
             last |-> IF Len(additionalData.val.last) > 0 THEN additionalData.val.last
                      ELSE stressAtFailure.val.last])

LogAtIncrement(rNow, inc) ==
    IF ~inc.ok THEN inc
    ELSE EnvelopeLines(ValuesAt(rNow, "stressComponents", inc.val),
                       ValuesAt(rNow, "additionalIdentifiersToStore", inc.val),
                       parseJobName(jobName, jobNameIsInt))

\* the failing series among the loaded ones, each a distinct xy data object
FailedOf(loaded) ==
    SelectSeq([k \in 1..Len(loaded) |-> [idx |-> k, data |-> loaded[k]]],
              LAMBDA f : HasFailed(f.data))

LogStressAtFailureInit(rNow, loaded) ==
    IF ~loaded.ok THEN loaded
    ELSE LogAtIncrement(rNow, FailureIncrement(FailedOf(loaded.val)))

\* a branch that writes the heading in front of every record
LogStressStep_AlwaysHeading(out) ==
    IF ~out.ok THEN Abort(out.err)
    ELSE /\ logFile' = [exists |-> TRUE,
                        lines |-> logFile.lines \o <<out.val.heading, out.val.dataToWrite>>]
         /\ iii' = iii + 1
         /\ xy' = out.val.last
         /\ UNCHANGED <<odb, para, analysisErrors, numberOfAnalysisWarnings, pc, testResults,
                        identifier_list, varName, xyDataObj, resultFile, err, fnIn, fnOut>>

LogStressStep(out) ==
    IF ~out.ok THEN Abort(out.err)
    ELSE /\ logFile' = [exists |-> TRUE,
                        lines |-> IF logFile.exists
                                  THEN Append(logFile.lines, out.val.dataToWrite)
                                  ELSE <<out.val.heading, out.val.dataToWrite>>]
         /\ iii' = iii + 1
         /\ xy' = out.val.last
         /\ UNCHANGED <<odb, para, analysisErrors, numberOfAnalysisWarnings, pc, testResults,
                        identifier_list, varName, xyDataObj, resultFile, err, fnIn, fnOut>>

EvalLogStress ==
    /\ AtSpec({"log_stress_at_failure_init"})
    /\ LogStressStep(LogStressAtFailureInit(r, FailureSeries(r)))

KnownTypes ==
    {"max", "min", "continuous", "xy_infl_pt", "disp_at_zero_y", "log_stress_at_failure_init",
     "slope", "finalValue", "x_at_peak_in_xy", "tabular"}

EvalUnrecognized ==
    /\ pc = "collect" /\ iii <= Len(para.results) /\ r["type"] \notin KnownTypes
    /\ Abort("test_case result data not recognized")

\* what testResults refers to: the specs as they are now
Collection == [k \in 1..Len(testResults) |-> para.results[testResults[k]]]

\* os.remove(fileName), after the loop
RemoveOldResults ==
    /\ pc = "collect" /\ iii > Len(para.results)
    /\ resultFile' = NoFile
    /\ pc' = "write"
    /\ UNCHANGED <<odb, para, analysisErrors, numberOfAnalysisWarnings, iii, testResults,
                   identifier_list, varName, xyDataObj, logFile, err, xy, fnIn, fnOut>>

\* write_results(testResults, fileName); the text it writes is studied in SpecWrite
WriteResultsFile ==
    /\ pc = "write"
    /\ resultFile' = [exists |-> TRUE, run |-> "this", body |-> Collection]
    /\ pc' = "done"
    /\ UNCHANGED <<odb, para, analysisErrors, numberOfAnalysisWarnings, iii, testResults,
                   identifier_list, varName, xyDataObj, logFile, err, xy, fnIn, fnOut>>

Next ==
    \/ GateErrors
    \/ GateWarnings
    \/ EvalMaxMin
    \/ EvalContinuous
    \/ EvalFinalValue
    \/ EvalDispAtZeroY
    \/ EvalXAtPeakInXY
    \/ EvalTabular
    \/ EvalLogStress
    \/ EvalUnrecognized
    \/ RemoveOldResults
    \/ WriteResultsFile

Spec == Init /\ [][Next]_vars

-----------------------------------------------------------------------------
(* Properties of the script (specification Spec) *)

ErrorsMessage == "ERROR: Errors occurred during analysis"

WarningsMessage == "ERROR: Warnings occurred during analysis"

OnlyEnvelopeSpecs ==
    \A k \in 1..Len(para.results) : para.results[k]["type"] = "log_stress_at_failure_init"

OnlyToleratedErrors ==
    \A k \in 1..Len(analysisErrors) : analysisErrors[k] = Tolerated

\* C1: once the gate on analysis errors has run, the job has aborted there exactly when
\* the run reports an error and neither (a) the specs are all log_stress_at_failure_init
\* with only 'Excessively distorted elements' errors nor (b) ignoreAnalysisErrors is true
\* holds; in cases (a) and (b) the job goes on to evaluation.
C1_ErrorGating ==
    pc # "errors" =>
        ((err = ErrorsMessage) <=>
            /\ Len(analysisErrors) > 0
            /\ ~(OnlyEnvelopeSpecs /\ OnlyToleratedErrors)
            /\ para.ignoreAnalysisErrors # "true")

PastWarningsGate == pc \notin {"errors", "warnings"} /\ err # ErrorsMessage

\* C2 as stated: once the gate on warnings has run, the job has aborted there exactly when
\* the run reports a warning and ignoreWarnings is not set to true (absent included).
C2_WarningGatingMirrorsErrors ==
    PastWarningsGate =>
        ((err = WarningsMessage) <=>
            (numberOfAnalysisWarnings > 0 /\ para.ignoreWarnings # "true"))

\* C2 amended: once the gate on warnings has run, the job has aborted there exactly when
\* the run reports a warning and the input sets ignoreWarnings to false; a job whose
\* input has no ignoreWarnings key goes on to evaluation.
C2_WarningGating ==
    PastWarningsGate =>
        ((err = WarningsMessage) <=>
            (numberOfAnalysisWarnings > 0 /\ para.ignoreWarnings = "false"))

\* a job without the ignoreWarnings key has passed the gate with warnings reported
C2_Witness ==
    /\ pc = "collect"
    /\ numberOfAnalysisWarnings > 0
    /\ para.ignoreWarnings = "absent"

\* C3: when a run has ended, completed or aborted, the result file does not exist or
\* holds exactly this run's result collection; a prior run's file does not survive.
C3_ResultFileLifecycle ==
    pc \in {"done", "aborted"} =>
        \/ ~resultFile.exists
        \/ (resultFile.run = "this" /\ resultFile.body = Collection)

\* the indices of the input specs that are not logging specs, in input order
EvaluatedInOrder ==
    SelectSeq([k \in 1..Len(para.results) |-> k],
              LAMBDA k : para.results[k]["type"] # "log_stress_at_failure_init")

\* C4: after the loop has completed, the result collection refers to the non-logging
\* specs in input order, each once and each carrying computedValue; logging specs are
\* not in it and carry no computedValue; the file written holds that collection.
C4_ResultOrdering ==
    pc \in {"write", "done"} =>
        /\ testResults = EvaluatedInOrder
        /\ \A k \in 1..Len(para.results) :
              ("computedValue" \in DOMAIN para.results[k])
                 <=> (para.results[k]["type"] # "log_stress_at_failure_init")
        /\ pc = "done" => resultFile.body = Collection

\* a completed job of a logging spec between two evaluated ones
C4_Witness ==
    /\ pc = "done"
    /\ Len(para.results) >= 2
    /\ \E k \in 1..Len(para.results) : para.results[k]["type"] = "log_stress_at_failure_init"
    /\ Len(testResults) >= 1
    /\ para.results[1]["type"] # para.results[Len(para.results)]["type"]

\* C9: the finalValue spec the loop has just evaluated carries the y value of the last
\* sample of the series obtained for it, with and without evalStatement.
C9_FinalValue ==
    (iii > 1 /\ para.results[iii - 1]["type"] = "finalValue") =>
        para.results[iii - 1]["computedValue"] = xy[Len(xy)][2]

-----------------------------------------------------------------------------
(* Function-level specifications: the inputs of one function are drawn in  *)
(* Init and one action applies it.  The script itself is not running.      *)

NoJob ==
    /\ odb = [historyOutputs |-> <<>>, historyRegions |-> <<>>]
    /\ para = [results |-> <<>>, ignoreAnalysisErrors |-> "absent", ignoreWarnings |-> "absent"]
    /\ analysisErrors = <<>>
    /\ numberOfAnalysisWarnings = 0
    /\ pc = "function"
    /\ iii = 1
    /\ testResults = <<>>
    /\ identifier_list = Undefined
    /\ varName = Undefined
    /\ xyDataObj = Undefined
    /\ resultFile = NoFile
    /\ logFile = [exists |-> FALSE, lines |-> <<>>]
    /\ err = ""
    /\ xy = <<>>

Called == fnOut # NoCall

\* a history series of the given values: one sample per increment, x the increment number
History(ys) == [k \in 1..Len(ys) |-> <<k - 1, ys[k]>>]

(* continuous *)

InitContinuous ==
    /\ NoJob
    /\ \E ys \in SeqsUpTo(-MaxVal..MaxVal, MaxLen), ref \in 0..MaxVal :
          fnIn = [fn |-> "continuous", data |-> History(ys), referenceValue |-> ref]
    /\ fnOut = NoCall

CallContinuous ==
    /\ fnIn.fn = "continuous" /\ ~Called
    /\ fnOut' = ContinuousValue(fnIn.data, fnIn.referenceValue)
    /\ UNCHANGED <<jobVars, fnIn>>

SpecContinuous == InitContinuous /\ [][CallContinuous]_vars

\* C7: for a series of n >= 2 samples, computedValue is
\* max(referenceValue, max over i in 1..n-1 of |y[i] - y[i-1]|), every consecutive
\* delta counted, the one between the first two samples included.
C7_ContinuousAllDeltas ==
    (Called /\ Len(fnIn.data) >= 2) =>
        /\ fnOut.ok
        /\ fnOut.val = Max2(fnIn.referenceValue,
                            MaxOf([k \in 1..(Len(fnIn.data) - 1) |->
                                     Abs(fnIn.data[k + 1][2] - fnIn.data[k][2])]))

(* tabular *)

TabYs == {0, 2}

InitTabular ==
    /\ NoJob
    /\ \E data \in SeqsUpTo((0..MaxVal) \X TabYs, MaxLen),
          refs \in SeqsUpTo((0..MaxVal) \X {0}, MaxRefs) :
          /\ Len(data) >= 2
          /\ fnIn = [fn |-> "tabular", data |-> data, r |-> [type |-> "tabular", referenceValue |-> refs]]
    /\ fnOut = NoCall

CallTabular ==
    /\ fnIn.fn = "tabular" /\ ~Called
    /\ \E unsorted \in UnsortedInterp(fnIn.r, fnIn.data) :
          fnOut' = Tabular(fnIn.r, fnIn.data, unsorted)
    /\ UNCHANGED <<jobVars, fnIn>>

SpecTabular == InitTabular /\ [][CallTabular]_vars

NonMonotonicMessage == "x values must be monotonically increasing"

\* C8: whenever some x[i] < x[i-1] the tabular evaluator fails with the
\* non-monotonic-domain error (and yields no computedValue); when x is non-decreasing it
\* returns one (x_ref, y) pair per reference x, in reference order.
C8_TabularDomainCheck ==
    Called =>
        IF NonDecreasing(Xs(fnIn.data))
        THEN /\ fnOut.ok
             /\ Len(fnOut.val) = Len(fnIn.r["referenceValue"])
             /\ \A k \in 1..Len(fnOut.val) : fnOut.val[k][1] = fnIn.r["referenceValue"][k][1]
        ELSE ~fnOut.ok /\ fnOut.err = NonMonotonicMessage

(* disp_at_zero_y *)

DispSpecs ==
    LET base == [type |-> "disp_at_zero_y", referenceValue |-> 1, tolerance |-> 1]
    IN  {base, WithKey(base, "zeroTol", 0),
         WithKey(base, "window", <<0, MaxVal>>),
         WithKey(base, "window", <<-1, MaxVal + 1>>),
         WithKey(WithKey(base, "window", <<-1, MaxVal + 1>>), "zeroTol", 0)}

InitDispAtZeroY ==
    /\ NoJob
    /\ \E data \in SeqsUpTo((0..MaxVal) \X (0..MaxVal), MaxLen), spec \in DispSpecs :
          fnIn = [fn |-> "disp_at_zero_y", data |-> data, r |-> spec]
    /\ fnOut = NoCall

CallDispAtZeroY ==
    /\ fnIn.fn = "disp_at_zero_y" /\ ~Called
    /\ fnOut' = DispAtZeroY(fnIn.r, fnIn.data)
    /\ UNCHANGED <<jobVars, fnIn>>

SpecDispAtZeroY == InitDispAtZeroY /\ [][CallDispAtZeroY]_vars

\* the samples strictly inside the window whose |y| is within zeroTol, in original order
ZeroCrossings(spec, data) ==
    SelectSeq(data, LAMBDA pt : /\ pt[1] > WindowOf(spec)[1]
                                /\ pt[1] < WindowOf(spec)[2]
                                /\ Abs(pt[2]) <= ZeroTolOf(spec))

\* C10: disp_at_zero_y raises the zero-crossing-not-found error exactly when no sample
\* strictly inside the window has |y| <= zeroTol; otherwise computedValue is the x of the
\* first such sample, also when that x is 0.
C10_DispAtZeroY ==
    Called =>
        IF Len(ZeroCrossings(fnIn.r, fnIn.data)) = 0
        THEN ~fnOut.ok
        ELSE fnOut.ok /\ fnOut.val = ZeroCrossings(fnIn.r, fnIn.data)[1][1]

(* identifier scan: historyOutputNameFromIdentifier on a structured node    *)
(* identifier with an nset and no position                                 *)

NodeLabel(n) == << <<"Node">>, <<"PART-1-1", n>> >>

ElementLabel == << <<"Element">>, <<"PART-1-1", "1">>, <<"Int">>, <<"Point">>, <<"1">> >>

RegionLabels == {NodeLabel("9"), NodeLabel("10"), NodeLabel("11"), ElementLabel}

\* node regions hold node outputs, element regions element outputs
Regions ==
    [label : RegionLabels \ {ElementLabel}, outputs : SUBSET {SymRF1, SymU1}]
        \cup [label : {ElementLabel}, outputs : SUBSET {SymS11}]

\* the historyRegions a step can have: distinct labels in any order, each with its outputs
RegionLists ==
    {regions \in SeqsUpTo(Regions, MaxRegions) :
        \A j, k \in 1..Len(regions) : j # k => regions[j].label # regions[k].label}

InitResolve ==
    /\ NoJob
    /\ \E regions \in RegionLists, sym \in {SymRF1, SymU1},
          stepNames \in {<<"Step-1">>, <<"Step-1", "Step-2">>} :
          fnIn = [fn |-> "historyOutputNameFromIdentifier",
                  identifier |-> [kind |-> "dict", v |-> [symbol |-> sym, nset |-> "LOADAPP"]],
                  steps |-> stepNames, regions |-> regions]
    /\ fnOut = NoCall

CallResolve ==
    /\ fnIn.fn = "historyOutputNameFromIdentifier" /\ ~Called
    /\ fnOut' = HistoryOutputNameFromIdentifier(fnIn.identifier, fnIn.steps, fnIn.regions)
    /\ UNCHANGED <<jobVars, fnIn>>

SpecResolve == InitResolve /\ [][CallResolve]_vars

\* the regions of the step whose history outputs hold the identifier's symbol
Matches(identifier, regions) ==
    {k \in 1..Len(regions) : identifier.v["symbol"] \in regions[k].outputs}

\* C6: resolved against a single step, a node identifier with an nset and no position
\* yields a channel name if and only if exactly one channel of the step matches the
\* symbol; with no match and with two or more matches the resolver raises.
C6_ScanExactlyOne ==
    (Called /\ Len(fnIn.steps) = 1) =>
        (fnOut.ok <=> Cardinality(Matches(fnIn.identifier, fnIn.regions)) = 1)

-----------------------------------------------------------------------------
(* write_results.  A file is the sequence of its characters.  A value is   *)
(* [t, s, n, items]: t its python type ("str", "num", "list", "dict"), s   *)
(* the characters of a str, n the value of an int, items the sequence of   *)
(* [k, v] of a container in iteration order (k is NoKey for a list).       *)

MaxStrLen == 1     \* longest string leaf and longest run of one key
MaxItems == 2      \* most items of the outermost container
MaxInner == 1      \* most items of a nested container
MaxDepth == 3      \* deepest nesting of containers

NoKey == [t |-> "none", s |-> <<>>, n |-> 0, items |-> <<>>]
StrOf(chars) == [t |-> "str", s |-> chars, n |-> 0, items |-> <<>>]
NumOf(i) == [t |-> "num", s |-> <<>>, n |-> i, items |-> <<>>]
ListOf(values) ==
    [t |-> "list", s |-> <<>>, n |-> 0,
     items |-> [i \in 1..Len(values) |-> [k |-> NoKey, v |-> values[i]]]]
DictOf(keys, values) ==
    [t |-> "dict", s |-> <<>>, n |-> 0,
     items |-> [i \in 1..Len(values) |-> [k |-> StrOf(keys[i]), v |-> values[i]]]]

DigitChar(d) == <<"0", "1", "2", "3", "4", "5", "6", "7", "8", "9">>[d + 1]

RECURSIVE NatToChars(_)
NatToChars(i) ==
    IF i < 10 THEN <<DigitChar(i)>> ELSE NatToChars(i \div 10) \o <<DigitChar(i % 10)>>

\* str() of a leaf: the characters of a str, the decimal digits of an int
StrOfValue(value) ==
    IF value.t = "str" THEN value.s
    ELSE IF value.n < 0 THEN <<"-">> \o NatToChars(-value.n) ELSE NatToChars(value.n)

Tabs(depth) == [i \in 1..depth |-> "\t"]

IsNested(value) == value.t \in {"dict", "list"}

RECURSIVE write_results(_, _)
RECURSIVE DictLoop(_, _)
RECURSIVE ListLoop(_, _)

\* the characters the loop over the keys of a dict appends
DictLoop(items, depth) ==
    IF items = <<>> THEN <<>>
    ELSE LET key == Head(items).k.s
             value == Head(items).v
         IN  Tabs(depth) \o <<"\"">> \o key \o <<"\"", ":", " ">>
             \o (IF IsNested(value) THEN <<"\n">> \o write_results(value, depth + 1)
                 ELSE IF value.t = "str"
                      THEN <<"\"">> \o StrOfValue(value) \o <<"\"", ",", "\n">>
                      ELSE StrOfValue(value) \o <<",", "\n">>)
             \o DictLoop(Tail(items), depth)

\* the characters the loop over the items of a list appends
ListLoop(items, depth) ==
    IF items = <<>> THEN <<>>
    ELSE LET value == Head(items).v
         IN  (IF IsNested(value) THEN write_results(value, depth + 1)
              ELSE IF value.t = "str"
                   THEN Tabs(depth) \o <<"\"">> \o StrOfValue(value)
                            \o <<"\"", ",", " ", "\n">>
                   ELSE Tabs(depth) \o StrOfValue(value) \o <<",", " ", "\n">>)
             \o ListLoop(Tail(items), depth)

\* the characters a call leaves in the file (depth 0 truncates it, deeper calls append)
write_results(results_to_write, depth) ==
    (IF depth = 0 THEN <<"r", "e", "s", "u", "l", "t", "s", " ", "=", " ">> ELSE <<>>)
    \o (IF results_to_write.t = "dict"
        THEN Tabs(depth) \o <<"{", "\n">>
             \o DictLoop(results_to_write.items, depth)
             \o (IF depth = 0 THEN Tabs(depth) \o <<"}", "\n">>
                 ELSE Tabs(depth) \o <<"}", ",", " ", "\n">>)
        ELSE IF results_to_write.t = "list"
        THEN Tabs(depth) \o <<"[", "\n">>
             \o ListLoop(results_to_write.items, depth)
             \o (IF depth = 0 THEN Tabs(depth) \o <<"]", "\n">>
                 ELSE Tabs(depth) \o <<"]", ",", "\n">>)
        ELSE <<>>)

(* the collections written *)

StrChars == {"k", "\"", "\\"}
Leaves ==
    {StrOf(chars) : chars \in SeqsUpTo(StrChars, MaxStrLen)} \cup {NumOf(i) : i \in {0, -12}}
KeyLists ==
    {keys \in SeqsUpTo({[i \in 1..m |-> "k"] : m \in 1..(MaxStrLen + 1)}, MaxItems) :
        \A i, j \in 1..Len(keys) : i # j => keys[i] # keys[j]}

ContainersOf(values, most) ==
    {ListOf(q) : q \in SeqsUpTo(values, most)}
    \cup UNION {{DictOf(keys, q) : q \in [1..Len(keys) -> values]} :
                    keys \in {ks \in KeyLists : Len(ks) <= most}}

RECURSIVE ValuesOfDepth(_)
ValuesOfDepth(depth) ==
    IF depth = 0 THEN Leaves
    ELSE Leaves \cup ContainersOf(ValuesOfDepth(depth - 1), MaxInner)

Collections == ContainersOf(ValuesOfDepth(MaxDepth - 1), MaxItems)

InitWrite ==
    /\ NoJob
    /\ \E results_to_write \in Collections :
          fnIn = [fn |-> "write_results", results_to_write |-> results_to_write]
    /\ fnOut = NoCall

CallWrite ==
    /\ fnIn.fn = "write_results" /\ ~Called
    /\ fnOut' = [fn |-> "write_results", text |-> write_results(fnIn.results_to_write, 0)]
    /\ UNCHANGED <<jobVars, fnIn>>

SpecWrite == InitWrite /\ [][CallWrite]_vars

(* Reading the file back as python source: the literal grammar for the     *)
(* characters write_results can produce.  A reader returns [ok, v, pos]:   *)
(* the value read and the position after it, or ok = FALSE where python    *)
(* raises SyntaxError or NameError.                                        *)

ReadError == [ok |-> FALSE, v |-> NoKey, pos |-> 0]
CharAt(text, pos) == IF pos \in 1..Len(text) THEN text[pos] ELSE "EOF"

\* blanks, tabs, line ends (inside brackets) and backslash-newline joins
RECURSIVE SkipBlanks(_, _)
SkipBlanks(text, pos) ==
    IF CharAt(text, pos) \in {" ", "\t", "\n"} THEN SkipBlanks(text, pos + 1)
    ELSE IF CharAt(text, pos) = "\\" /\ CharAt(text, pos + 1) = "\n"
         THEN SkipBlanks(text, pos + 2)
         ELSE pos

\* the characters a backslash and its follower stand for inside a string literal
Escape(follower) ==
    IF follower = "\n" THEN <<>>
    ELSE IF follower \in {"\"", "\\"} THEN <<follower>>
    ELSE <<"\\", follower>>

\* the body of a "..." literal (triple = FALSE) or a """...""" literal (triple = TRUE)
RECURSIVE ReadStringBody(_, _, _, _)
ReadStringBody(text, pos, acc, triple) ==
    LET c == CharAt(text, pos)
    IN  IF c = "EOF" THEN ReadError
        ELSE IF c = "\n" /\ ~triple THEN ReadError
        ELSE IF c = "\\"
             THEN IF CharAt(text, pos + 1) = "EOF" THEN ReadError
                  ELSE ReadStringBody(text, pos + 2,
                                      acc \o Escape(CharAt(text, pos + 1)), triple)
        ELSE IF c = "\"" /\ ~triple
             THEN [ok |-> TRUE, v |-> StrOf(acc), pos |-> pos + 1]
        ELSE IF c = "\"" /\ CharAt(text, pos + 1) = "\"" /\ CharAt(text, pos + 2) = "\""
             THEN [ok |-> TRUE, v |-> StrOf(acc), pos |-> pos + 3]
        ELSE ReadStringBody(text, pos + 1, acc \o <<c>>, triple)

\* one string literal starting at the quote at pos
ReadString(text, pos) ==
    IF CharAt(text, pos + 1) = "\"" /\ CharAt(text, pos + 2) = "\""
    THEN ReadStringBody(text, pos + 3, <<>>, TRUE)
    ELSE ReadStringBody(text, pos + 1, <<>>, FALSE)

\* adjacent string literals are concatenated
RECURSIVE ReadStrings(_, _, _)
ReadStrings(text, pos, acc) ==
    LET one == ReadString(text, pos)
        next == SkipBlanks(text, one.pos)
    IN  IF ~one.ok THEN ReadError
        ELSE IF CharAt(text, next) = "\"" THEN ReadStrings(text, next, acc \o one.v.s)
        ELSE [ok |-> TRUE, v |-> StrOf(acc \o one.v.s), pos |-> one.pos]

DigitValue(c) == CHOOSE d \in 0..9 : DigitChar(d) = c

RECURSIVE ReadDigits(_, _, _)
ReadDigits(text, pos, acc) ==
    IF CharAt(text, pos) \in Digits
    THEN ReadDigits(text, pos + 1, 10 * acc + DigitValue(CharAt(text, pos)))
    ELSE [ok |-> TRUE, v |-> NumOf(acc), pos |-> pos]

\* a decimal integer; a nonzero one does not start with 0
ReadNumber(text, pos) ==
    IF CharAt(text, pos) = "-"
    THEN LET rest == SkipBlanks(text, pos + 1)
             num == ReadDigits(text, rest, 0)
         IN  IF CharAt(text, rest) \notin Digits THEN ReadError
             ELSE IF CharAt(text, rest) = "0" /\ num.pos > rest + 1 /\ num.v.n # 0
                  THEN ReadError
             ELSE [ok |-> TRUE, v |-> NumOf(-num.v.n), pos |-> num.pos]
    ELSE LET num == ReadDigits(text, pos, 0)
         IN  IF CharAt(text, pos) = "0" /\ num.pos > pos + 1 /\ num.v.n # 0
             THEN ReadError ELSE num

\* a dict display keeps the first position of a repeated key and its last value
PutItem(items, key, value) ==
    IF \E i \in 1..Len(items) : items[i].k = key
    THEN [i \in 1..Len(items) |->
             IF items[i].k = key THEN [k |-> key, v |-> value] ELSE items[i]]
    ELSE Append(items, [k |-> key, v |-> value])

RECURSIVE ReadValue(_, _)
RECURSIVE ReadList(_, _, _)
RECURSIVE ReadDict(_, _, _)

\* the items of a list display up to its closing bracket
ReadList(text, pos, acc) ==
    LET start == SkipBlanks(text, pos)
        item == ReadValue(text, start)
        after == SkipBlanks(text, item.pos)
    IN  IF CharAt(text, start) = "]"
        THEN [ok |-> TRUE, v |-> [t |-> "list", s |-> <<>>, n |-> 0, items |-> acc],
              pos |-> start + 1]
        ELSE IF ~item.ok THEN ReadError
        ELSE IF CharAt(text, after) = ","
             THEN ReadList(text, after + 1, Append(acc, [k |-> NoKey, v |-> item.v]))
        ELSE IF CharAt(text, after) = "]"
             THEN [ok |-> TRUE,
                   v |-> [t |-> "list", s |-> <<>>, n |-> 0,
                          items |-> Append(acc, [k |-> NoKey, v |-> item.v])],
                   pos |-> after + 1]
        ELSE ReadError

\* the key: value pairs of a dict display up to its closing brace
ReadDict(text, pos, acc) ==
    LET start == SkipBlanks(text, pos)
        key == ReadValue(text, start)
        colon == SkipBlanks(text, key.pos)
        value == ReadValue(text, SkipBlanks(text, colon + 1))
        after == SkipBlanks(text, value.pos)
    IN  IF CharAt(text, start) = "}"
        THEN [ok |-> TRUE, v |-> [t |-> "dict", s |-> <<>>, n |-> 0, items |-> acc],
              pos |-> start + 1]
        ELSE IF ~key.ok \/ IsNested(key.v) THEN ReadError
        ELSE IF CharAt(text, colon) # ":" THEN ReadError
        ELSE IF ~value.ok THEN ReadError
        ELSE IF CharAt(text, after) = ","
             THEN ReadDict(text, after + 1, PutItem(acc, key.v, value.v))
        ELSE IF CharAt(text, after) = "}"
             THEN [ok |-> TRUE,
                   v |-> [t |-> "dict", s |-> <<>>, n |-> 0,
                          items |-> PutItem(acc, key.v, value.v)],
                   pos |-> after + 1]
        ELSE ReadError

\* one expression starting at pos (blanks already skipped)
ReadValue(text, pos) ==
    LET c == CharAt(text, pos)
    IN  IF c = "\"" THEN ReadStrings(text, pos, <<>>)
        ELSE IF c \in Digits \cup {"-"} THEN ReadNumber(text, pos)
        ELSE IF c = "[" THEN ReadList(text, pos + 1, <<>>)
        ELSE IF c = "{" THEN ReadDict(text, pos + 1, <<>>)
        ELSE ReadError

\* the value the module binds to the name results, or ok = FALSE if it cannot be read
ReadResults(text) ==
    LET name == <<"r", "e", "s", "u", "l", "t", "s">>
        equals == SkipBlanks(text, Len(name) + 1)
        value == ReadValue(text, SkipBlanks(text, equals + 1))
    IN  IF Len(text) < Len(name) \/ SubSeq(text, 1, Len(name)) # name
        THEN [ok |-> FALSE, v |-> NoKey]
        ELSE IF CharAt(text, equals) # "=" \/ CharAt(text, equals + 1) = "="
        THEN [ok |-> FALSE, v |-> NoKey]
        ELSE IF ~value.ok \/ CharAt(text, SkipBlanks(text, value.pos)) # "EOF"
        THEN [ok |-> FALSE, v |-> NoKey]
        ELSE [ok |-> TRUE, v |-> value.v]

\* C5: for every collection of strings, integers and nested mappings and sequences,
\* the text written by write_results reads back, as the python literal assigned to
\* results, as the same structure: same nesting, same keys in the same order, same
\* leaves, strings still strings and numbers still numbers.
C5_RoundTrip ==
    (Called /\ fnIn.fn = "write_results") =>
        ReadResults(fnOut.text) = [ok |-> TRUE, v |-> fnIn.results_to_write]

-----------------------------------------------------------------------------
(* window selection of the slope and xy_infl_pt branches *)

NoPointsMessage == "No points found in specified window"

\* the statements "Select window" of both branches: the list comprehension, the
\* empty check, and the equal-x check whose min() is over len(windowed) - 1 gaps
WindowSelect(data, windowMin, windowMax) ==
    LET windowed == Windowed(data, windowMin, windowMax)
        gaps == [i \in 1..(Len(windowed) - 1) |-> Abs(windowed[i + 1][1] - windowed[i][1])]
    IN  IF Len(windowed) = 0 THEN Raise(NoPointsMessage)
        ELSE IF Len(gaps) = 0 THEN Raise("ValueError")
        ELSE IF MinOf(gaps) = 0 THEN Raise("ERROR")
        ELSE Ok(windowed)

InitWindow ==
    /\ NoJob
    /\ \E data \in SeqsUpTo((0..MaxVal) \X (0..1), MaxLen),
          windowMin \in -1..(MaxVal + 1), windowMax \in -1..(MaxVal + 1) :
          fnIn = [fn |-> "window", data |-> data, window |-> <<windowMin, windowMax>>]
    /\ fnOut = NoCall

CallWindow ==
    /\ fnIn.fn = "window" /\ ~Called
    /\ fnOut' = WindowSelect(fnIn.data, fnIn.window[1], fnIn.window[2])
    /\ UNCHANGED <<jobVars, fnIn>>

SpecWindow == InitWindow /\ [][CallWindow]_vars

\* the samples with min < x < max, in original order
Kept(data, window) == SelectSeq(data, LAMBDA pt : window[1] < pt[1] /\ pt[1] < window[2])

\* C11: window selection keeps exactly the samples with min < x < max; with no sample
\* kept (so whenever min = max) it raises the no-data error, with exactly one kept it
\* returns that sample without raising, and it raises when two consecutive kept samples
\* have equal x.
C11_WindowSelect ==
    Called =>
        LET kept == Kept(fnIn.data, fnIn.window)
        IN  IF Len(kept) = 0 THEN ~fnOut.ok /\ fnOut.err = NoPointsMessage
            ELSE IF \E i \in 1..(Len(kept) - 1) : kept[i][1] = kept[i + 1][1] THEN ~fnOut.ok
            ELSE fnOut.ok /\ fnOut.val = kept

-----------------------------------------------------------------------------
(* interpolate and resample.  Sample x and y are integers; the new x of a  *)
(* resampled series and its y are rationals.                               *)

MaxPts == 3        \* largest numPts of a resample call

NotImplementedMessage ==
    "Functionality to interpolate datasets that traverse 0 or are unsorted is not implemented"

RatNeg(a) == [n |-> -a.n, d |-> a.d]

\* np.linspace(start, stop, num): num evenly spaced values, the last one stop itself
Linspace(start, stop, num) ==
    [i \in 1..num |->
        IF num = 1 THEN RatOfInt(start)
        ELSE IF i = num THEN RatOfInt(stop)
        ELSE Rat(start * (num - 1) + (i - 1) * (stop - start), num - 1)]

\* np.all(np.diff(xp) > 0): true of an array with fewer than two elements
AllDiffPositive(xp) == \A k \in 1..(Len(xp) - 1) : xp[k + 1] - xp[k] > 0

\* np.interp(x, xp, fp) at one rational x for non-decreasing integer xp
NpInterpAt(x, xp, fp) ==
    LET n == Len(xp)
        j == CHOOSE k \in 1..n : xp[k] * x.d <= x.n /\ \A m \in (k + 1)..n : xp[m] * x.d > x.n
    IN  IF x.n > xp[n] * x.d THEN RatOfInt(fp[n])
        ELSE IF x.n < xp[1] * x.d THEN RatOfInt(fp[1])
        ELSE IF j = n \/ xp[j] * x.d = x.n THEN RatOfInt(fp[j])
        ELSE Rat(fp[j] * x.d * (xp[j + 1] - xp[j]) + (fp[j + 1] - fp[j]) * (x.n - xp[j] * x.d),
                 x.d * (xp[j + 1] - xp[j]))

\* a variant that interpolates every unsorted series on |xp|, negative or not
interpolate_AnySign(x, xp, fp, unsorted) ==
    LET xpos == [k \in 1..Len(xp) |-> Abs(xp[k])]
    IN  IF AllDiffPositive(xp)
        THEN Ok([k \in 1..Len(x) |-> NpInterpAt(x[k], xp, fp)])
        ELSE IF NonDecreasing(xpos)
             THEN Ok([k \in 1..Len(x) |-> NpInterpAt(RatNeg(x[k]), xpos, fp)])
             ELSE Ok(unsorted)

\* interpolate(x, xp, fp); unsorted holds the values np.interp yields when |xp| is
\* not sorted, which numpy leaves unspecified
interpolate(x, xp, fp, unsorted) ==
    LET xpos == [k \in 1..Len(xp) |-> Abs(xp[k])]
    IN  IF AllDiffPositive(xp)
        THEN Ok([k \in 1..Len(x) |-> NpInterpAt(x[k], xp, fp)])
        ELSE IF \A i \in 1..Len(xp) : xp[i] < 0
             THEN IF NonDecreasing(xpos)
                  THEN Ok([k \in 1..Len(x) |-> NpInterpAt(RatNeg(x[k]), xpos, fp)])
                  ELSE Ok(unsorted)
             ELSE Raise(NotImplementedMessage)

resample(data, numPts, unsorted) ==
    LET x == Xs(data)
        y == Ys(data)
        xMin == IF x[1] < x[Len(x)] THEN x[1] ELSE x[Len(x)]
        xMax == IF x[1] < x[Len(x)] THEN x[Len(x)] ELSE x[1]
        xNew == Linspace(xMin, xMax, numPts)
        yNew == interpolate(xNew, x, y, unsorted)
    IN  IF Len(data) = 0 THEN Raise("ValueError")
        ELSE IF ~yNew.ok THEN yNew
        ELSE Ok([k \in 1..numPts |-> <<xNew[k], yNew.val[k]>>])

\* the values an np.interp over unsorted xp is taken to yield for numPts points
UnsortedResample(data, numPts) == [1..numPts -> {RatOfInt(data[k][2]) : k \in 1..Len(data)}]

InitResample ==
    /\ NoJob
    /\ \E data \in SeqsUpTo((-MaxVal..MaxVal) \X {0, 2}, MaxLen), numPts \in 1..MaxPts :
          /\ Len(data) >= 1
          /\ fnIn = [fn |-> "resample", data |-> data, numPts |-> numPts]
    /\ fnOut = NoCall

CallResample ==
    /\ fnIn.fn = "resample" /\ ~Called
    /\ \E unsorted \in UnsortedResample(fnIn.data, fnIn.numPts) :
          fnOut' = resample(fnIn.data, fnIn.numPts, unsorted)
    /\ UNCHANGED <<jobVars, fnIn>>

SpecResample == InitResample /\ [][CallResample]_vars

Ascending(x) == \A k \in 1..(Len(x) - 1) : x[k] < x[k + 1]
Descending(x) == \A k \in 1..(Len(x) - 1) : x[k] > x[k + 1]

\* numPts points whose first x is the least and whose last x is the greatest input x
SpansInput(out, data, numPts) ==
    /\ out.ok
    /\ Len(out.val) = numPts
    /\ out.val[1][1] = RatOfInt(MinOf(Xs(data)))
    /\ out.val[numPts][1] = RatOfInt(MaxOf(Xs(data)))

\* C12 as stated: for every series with at least two samples whose x is ascending or
\* descending, of either sign, resample returns exactly numPts points, the first at
\* min(x) and the last at max(x), and never raises.
C12_ResampleAnyDirection ==
    (Called /\ fnIn.numPts >= 2 /\ Len(fnIn.data) >= 2
        /\ (Ascending(Xs(fnIn.data)) \/ Descending(Xs(fnIn.data))))
    => SpansInput(fnOut, fnIn.data, fnIn.numPts)

\* C12 amended: resample returns exactly numPts points from min(x) to max(x) when x is
\* ascending, and when x is descending with every x negative; for a descending series
\* with some x >= 0 it raises the not-implemented exception of interpolate.
C12_ResampleSupportedDirections ==
    (Called /\ fnIn.numPts >= 2 /\ Len(fnIn.data) >= 2) =>
        LET x == Xs(fnIn.data)
        IN  /\ (Ascending(x) \/ (Descending(x) /\ \A k \in 1..Len(x) : x[k] < 0))
                => SpansInput(fnOut, fnIn.data, fnIn.numPts)
            /\ (Descending(x) /\ \E k \in 1..Len(x) : x[k] >= 0)
                => (~fnOut.ok /\ fnOut.err = NotImplementedMessage)

\* a descending, all-negative series was resampled
C12_Witness ==
    /\ Called /\ fnIn.numPts >= 2 /\ Len(fnIn.data) >= 2
    /\ Descending(Xs(fnIn.data))
    /\ \A k \in 1..Len(fnIn.data) : fnIn.data[k][1] < 0
    /\ SpansInput(fnOut, fnIn.data, fnIn.numPts)

-----------------------------------------------------------------------------
(* Properties of the failure-envelope evaluator (specification Spec) *)

MultipleFailureMessage == "Multiple failure modes occurred at the same increment"

NoFailureMessage == "No failure occurred in the model"

IsLogStress(k) == para.results[k]["type"] = "log_stress_at_failure_init"

\* the series of the failure indices of spec k, in the order the spec lists them
FailureData(k) ==
    LET names == HistoryOutputNameFromIdentifier(para.results[k]["failureIndices"], steps,
                                                 odb.historyRegions).val
    IN  [j \in 1..Len(names) |-> odb.historyOutputs[names[j]]]

\* the first increment (from 0) at which a series is >= 1.0; Len(data) if it never is
FirstFailure(data) ==
    IF \E i \in 1..Len(data) : data[i][2] >= FailureThreshold
    THEN (CHOOSE i \in 1..Len(data) :
             data[i][2] >= FailureThreshold /\ \A j \in 1..(i - 1) : data[j][2] < FailureThreshold) - 1
    ELSE Len(data)

\* two or more failing failure indices of spec k first reach 1.0 at the same increment
SimultaneousFailure(k) ==
    \E a, b \in 1..Len(FailureData(k)) :
        /\ a # b
        /\ FirstFailure(FailureData(k)[a]) < Len(FailureData(k)[a])
        /\ FirstFailure(FailureData(k)[a]) = FirstFailure(FailureData(k)[b])

\* the data records of the envelope log
LogRecords == SelectSeq(logFile.lines, LAMBDA line : line.kind = "data")

\* C13: a log_stress_at_failure_init spec whose failing failure indices first reach 1.0
\* at the same increment is never evaluated successfully: the job stops at that spec
\* with the 'multiple failure modes at the same increment' error and the spec adds no
\* record to the envelope log.
C13_SimultaneousFailureRaises ==
    \A k \in 1..Len(para.results) :
        (IsLogStress(k) /\ SimultaneousFailure(k)) =>
            /\ iii <= k
            /\ (pc = "aborted" /\ iii = k /\ err \notin {ErrorsMessage, WarningsMessage})
                  => err = MultipleFailureMessage
            /\ Len(LogRecords) <= Cardinality({j \in 1..(k - 1) : IsLogStress(j)})

\* the logging specs evaluated so far, in evaluation order
LoggedSpecs ==
    SelectSeq([k \in 1..(iii - 1) |-> k], LAMBDA k : IsLogStress(k))

\* the symbols a logging spec stores besides the stress components
AdditionalSymbols(k) ==
    LET idents == para.results[k]["additionalIdentifiersToStore"].v
    IN  {idents[j].v["symbol"] : j \in 1..Len(idents)}

\* C15: starting from no log file, the envelope log exists exactly when a logging spec
\* has been evaluated successfully; it then holds one heading, as its first line,
\* followed by one data record per successful evaluation in evaluation order; an
\* evaluation that fails leaves the log as it was.
C15_EnvelopeLog ==
    IF Len(LoggedSpecs) = 0
    THEN ~logFile.exists /\ logFile.lines = <<>>
    ELSE /\ logFile.exists
         /\ Len(logFile.lines) = 1 + Len(LoggedSpecs)
         /\ logFile.lines[1].kind = "heading"
         /\ \A m \in 1..Len(LoggedSpecs) :
               /\ logFile.lines[1 + m].kind = "data"
               /\ DOMAIN logFile.lines[1 + m].additional = AdditionalSymbols(LoggedSpecs[m])

\* a logging spec failed after another one had written its record
C15_Witness ==
    /\ pc = "aborted"
    /\ err = NoFailureMessage
    /\ iii = 2
    /\ IsLogStress(1) /\ IsLogStress(2)
    /\ Len(logFile.lines) = 2

\* the keys a step adds to spec k
AddedKeys(k) == DOMAIN para'.results[k] \ DOMAIN para.results[k]

\* a step keeps every field spec k has, computedValue aside
KeepsFields(k) ==
    \A key \in DOMAIN para.results[k] :
        /\ key \in DOMAIN para'.results[k]
        /\ key # "computedValue" => para'.results[k][key] = para.results[k][key]

-----------------------------------------------------------------------------
(* the failure-increment search of log_stress_at_failure_init *)

MaxSeries == 2     \* most failure indices of a spec

\* values of a failure index: 0.5, 1.0 and 1.2
FailureValues == {500000, FailureThreshold, 1200000}

InitFailure ==
    /\ NoJob
    /\ \E len \in 1..MaxLen, count \in 1..MaxSeries :
          \E values \in [1..count -> [1..len -> FailureValues]] :
              fnIn = [fn |-> "failure_increment",
                      loaded |-> [j \in 1..count |-> History(values[j])]]
    /\ fnOut = NoCall

CallFailure ==
    /\ fnIn.fn = "failure_increment" /\ ~Called
    /\ fnOut' = FailureIncrement(FailedOf(fnIn.loaded))
    /\ UNCHANGED <<jobVars, fnIn>>

SpecFailure == InitFailure /\ [][CallFailure]_vars

\* the earliest increment at which any of the series is >= 1.0
EarliestFailure(loaded) ==
    CHOOSE k \in 0..Len(loaded[1]) :
        /\ \E j \in 1..Len(loaded) : FirstFailure(loaded[j]) = k
        /\ \A j \in 1..Len(loaded) : FirstFailure(loaded[j]) >= k

\* C14: whenever the search completes without error, the increment inc it yields is an
\* index k >= 1 of the series, it is the earliest increment at which any failure index is
\* >= 1.0, and some failure index has value[k] >= 1.0 and value[k-1] < 1.0, k - 1 being
\* the preceding increment and not a sample reached by index wrap-around.
C14_FailureIncrement ==
    (Called /\ fnOut.ok) =>
        /\ fnOut.val >= 1
        /\ fnOut.val < Len(fnIn.loaded[1])
        /\ fnOut.val = EarliestFailure(fnIn.loaded)
        /\ \E j \in 1..Len(fnIn.loaded) :
              /\ fnIn.loaded[j][fnOut.val + 1][2] >= FailureThreshold
              /\ fnIn.loaded[j][fnOut.val][2] < FailureThreshold

-----------------------------------------------------------------------------
(* One spec evaluated alone and then again, by a new run of the script, at *)
(* the end of a longer job.  The files of the first run stay; the module's *)
(* variables start unbound again.                                          *)

InitAlone ==
    /\ odb = [historyOutputs |-> OdbHistoryOutputs, historyRegions |-> OdbHistoryRegions]
    /\ \E t \in 1..Len(Templates) :
          /\ para = [results |-> <<Templates[t]>>,
                     ignoreAnalysisErrors |-> "absent", ignoreWarnings |-> "absent"]
          /\ fnIn = [fn |-> "alone", template |-> t]
    /\ analysisErrors = <<>>
    /\ numberOfAnalysisWarnings = 0
    /\ pc = "errors"
    /\ iii = 1
    /\ testResults = <<>>
    /\ identifier_list = Undefined
    /\ varName = Undefined
    /\ xyDataObj = Undefined
    /\ resultFile = NoFile
    /\ logFile = [exists |-> FALSE, lines |-> <<>>]
    /\ err = ""
    /\ xy = <<>>
    /\ fnOut = NoCall

\* spec k has been evaluated or the job has stopped at it
Settled(k) == (pc = "aborted" /\ iii = k) \/ (pc # "aborted" /\ iii > k)

\* what evaluating spec k gave: its computedValue (the record logged, for a logging
\* spec) or the error the job stopped with
OutcomeAt(k) ==
    IF iii > k
    THEN [fn |-> "outcome", ok |-> TRUE, err |-> "",
          val |-> IF IsLogStress(k) THEN logFile.lines[Len(logFile.lines)]
                  ELSE para.results[k]["computedValue"]]
    ELSE [fn |-> "outcome", ok |-> FALSE, err |-> err, val |-> <<>>]

\* the script is started again on a job that ends with the same spec
Restart ==
    /\ pc \in {"done", "aborted"} /\ fnIn.fn = "alone"
    /\ \E prefix \in SeqsUpTo(1..Len(Templates), MaxSpecs - 1) \ {<<>>} :
          para' = [para EXCEPT !.results =
                      [k \in 1..Len(prefix) |-> Templates[prefix[k]]]
                          \o <<Templates[fnIn.template]>>]
    /\ fnOut' = OutcomeAt(1)
    /\ fnIn' = [fnIn EXCEPT !.fn = "after"]
    /\ pc' = "errors"
    /\ iii' = 1
    /\ testResults' = <<>>
    /\ identifier_list' = Undefined
    /\ varName' = Undefined
    /\ xyDataObj' = Undefined
    /\ err' = ""
    /\ xy' = <<>>
    /\ UNCHANGED <<odb, analysisErrors, numberOfAnalysisWarnings, resultFile, logFile>>

SpecRerun == InitAlone /\ [][Next \/ Restart]_vars

\* C17: for a fixed history store, a spec evaluated at the end of a job has the outcome
\* (computedValue or error) it has when it is evaluated alone, whatever specs were
\* evaluated before it.
C17_EvaluationIndependence ==
    (fnIn.fn = "after" /\ Settled(Len(para.results))) =>
        LET after == OutcomeAt(Len(para.results))
        IN  /\ after.ok = fnOut.ok
            /\ after.ok => after.val = fnOut.val
            /\ ~after.ok => after.err = fnOut.err

====
